---- MODULE Spec2Model ----
(***************************************************************************)
(* A model of smcli's wallet package (src/wallet/wallet.go):               *)
(*   - SpawnMultiSig's validation of threshold and participants,           *)
(*   - the three wallet constructors and accountsFromMaster,               *)
(*   - PubkeyToAddress, sequentially and under concurrent callers,         *)
(*   - hexEncodedCiphertext's MarshalJSON / UnmarshalJSON.                 *)
(* Strings are sequences of one-character strings, byte slices are         *)
(* sequences of numbers in 0..255.                                         *)
(***************************************************************************)
EXTENDS Integers, Sequences, FiniteSets, TLC

VARIABLES
    \* SpawnMultiSig
    threshold, participants, msPc, msRet,
    \* wallet constructors
    ctor, m, n, pc, calls, seed, masterKeyPair, accounts, i, ret, raised,
    \* PubkeyToAddress, called twice in sequence
    pubkeys, hrp, addrs, addrPc,
    \* PubkeyToAddress, called by concurrent goroutines
    networkHrp, gArgs, gPc, gKey, gRead, gRet, gOverlap,
    \* hexEncodedCiphertext
    hexBytes, hexData, c, hexErr, hexPc

msVars   == <<threshold, participants, msPc, msRet>>
wVars    == <<ctor, m, n, pc, calls, seed, masterKeyPair, accounts, i, ret, raised>>
aVars    == <<pubkeys, hrp, addrs, addrPc>>
gVars    == <<gArgs, gPc, gKey, gRead, gRet, gOverlap>>
hVars    == <<hexBytes, hexData, c, hexErr, hexPc>>
vars     == <<msVars, wVars, aVars, networkHrp, gVars, hVars>>

\* a nil error
Nil == "nil"
\* a nil pointer
NilPointer == [nil |-> TRUE]
\* nothing returned yet
NoReturn == [returned |-> FALSE]
\* no step has failed
NoFailure == [step |-> "none"]

\* The part of the state a specification does not use stays at these values.
IdleMultiSig == threshold = 0 /\ participants = <<>> /\ msPc = "idle" /\ msRet = NoReturn
IdleWallet ==
    /\ ctor = Nil /\ m = <<>> /\ n = 0 /\ pc = "idle" /\ calls = <<>>
    /\ seed = <<>> /\ masterKeyPair = NilPointer /\ accounts = <<>> /\ i = 0
    /\ ret = NoReturn /\ raised = NoFailure
IdleAddr == pubkeys = <<>> /\ hrp = Nil /\ addrs = <<>> /\ addrPc = "idle"
IdleGo ==
    /\ gArgs = <<>> /\ gPc = <<>> /\ gKey = <<>> /\ gRead = <<>>
    /\ gRet = <<>> /\ gOverlap = <<>>
IdleHex == hexBytes = <<>> /\ hexData = <<>> /\ c = <<>> /\ hexErr = Nil /\ hexPc = "idle"

(***************************************************************************)
(* Strings                                                                 *)
(***************************************************************************)
\* "sm", "stest": the network prefixes (human-readable parts) used as inputs.
HrpSm == <<"s", "m">>
HrpTest == <<"s", "t", "e", "s", "t">>
HRPs == {HrpSm, HrpTest}
\* the value types.networkHrp holds as a Go string header: data pointer and length
StringHeader(s) == [data |-> s, len |-> Len(s)]

(***************************************************************************)
(* SpawnMultiSig                                                           *)
(***************************************************************************)
\* uint8 has 2^8 values
Uint8Mod == 256
\* the largest participant list of which every content is enumerated
MaxParticipants == 3
\* the longest participant list tried; lists longer than MaxParticipants
\* hold one key pattern
MaxLongParticipants == 257
PublicKeys == {"pkA", "pkB"}
LongList(len) == [k \in 1..len |-> IF k % 2 = 1 THEN "pkA" ELSE "pkB"]
ParticipantLists ==
    UNION {[1..len -> PublicKeys] : len \in 0..MaxParticipants}
    \cup {LongList(len) : len \in (Uint8Mod - 2)..MaxLongParticipants}

ErrThreshold == "invalid threshold"
ErrParticipants == "invalid number of participants"
ZeroAddress == [template |-> "zero", args |-> <<>>]
MultisigTemplate == "multisig.TemplateAddress"
WalletTemplate == "wallet.TemplateAddress"

\* core.ComputePrincipal: the hash of (template, arguments), taken to be
\* collision-free, so an address is represented by what was hashed.
ComputePrincipal(template, args) == [template |-> template, args |-> args]

uint8(x) == x % Uint8Mod

\* the checks in the opposite order
SpawnMultiSigCountFirst(t, ps) ==
    LET numParticipants == Len(ps) IN
    IF numParticipants <= 1
    THEN [addr |-> ZeroAddress, err |-> ErrParticipants]
    ELSE IF t < 1 \/ t > uint8(numParticipants)
    THEN [addr |-> ZeroAddress, err |-> ErrThreshold]
    ELSE [addr |-> ComputePrincipal(MultisigTemplate, [Required |-> t, PublicKeys |-> ps]),
          err |-> Nil]

SpawnMultiSig(t, ps) ==
    LET numParticipants == Len(ps) IN
    IF t < 1 \/ t > uint8(numParticipants)
    THEN [addr |-> ZeroAddress, err |-> ErrThreshold]
    ELSE IF numParticipants <= 1
    THEN [addr |-> ZeroAddress, err |-> ErrParticipants]
    ELSE [addr |-> ComputePrincipal(MultisigTemplate, [Required |-> t, PublicKeys |-> ps]),
          err |-> Nil]

InitMultiSig ==
    /\ threshold \in 0..(Uint8Mod - 1)
    /\ participants \in ParticipantLists
    /\ msPc = "call"
    /\ msRet = NoReturn
    /\ IdleWallet /\ IdleAddr /\ IdleGo /\ IdleHex
    /\ networkHrp = StringHeader(HrpSm)

CallSpawnMultiSig ==
    /\ msPc = "call"
    /\ msRet' = SpawnMultiSig(threshold, participants)
    /\ msPc' = "done"
    /\ UNCHANGED <<threshold, participants, wVars, aVars, networkHrp, gVars, hVars>>

NextMultiSig == CallSpawnMultiSig
SpecMultiSig == InitMultiSig /\ [][NextMultiSig]_vars

\* C1: SpawnMultiSig returns the 'invalid threshold' error exactly when
\* NOT (1 <= threshold <= len(participants)), for lists of any length.
C1_ThresholdErrorExactlyWhenOutOfRange ==
    msPc = "done" =>
        ((msRet.err = ErrThreshold)
            <=> ~(1 <= threshold /\ threshold <= Len(participants)))

\* C2 as stated: with fewer than 2 participants and threshold >= 1 the error
\* is the participant-count error; threshold 0 with two participants gives
\* the invalid-threshold error.
C2_Original ==
    msPc = "done" =>
        /\ (Len(participants) < 2 /\ threshold >= 1) => msRet.err = ErrParticipants
        /\ (Len(participants) = 2 /\ threshold = 0) => msRet.err = ErrThreshold

\* C2 amended: with fewer than 2 participants the call always fails; the
\* error is the participant-count error exactly when 1 <= threshold <= len
\* (one participant, threshold 1) and the invalid-threshold error otherwise
\* (so for threshold 2 with one participant); threshold 0 with two
\* participants gives the invalid-threshold error.
C2_FewParticipantsError ==
    msPc = "done" =>
        /\ Len(participants) < 2 =>
            /\ msRet.addr = ZeroAddress
            /\ msRet.err = IF threshold = 1 /\ Len(participants) = 1
                           THEN ErrParticipants ELSE ErrThreshold
        /\ (Len(participants) = 2 /\ threshold = 0) => msRet.err = ErrThreshold

C2_Witness ==
    /\ msPc = "done" /\ Len(participants) = 1 /\ threshold = 2
    /\ msRet.err = ErrThreshold

(***************************************************************************)
(* Mnemonic phrases (strings.Fields, strings.Join, bip39)                  *)
(***************************************************************************)
\* the longest phrase tried, in characters
MaxPhraseLen == 4
\* the number of words of a mnemonic (12..24 in bip39), scaled down
MnemonicWords == 2
Space == " "
\* unicode.IsSpace: the space and, standing for the others, the tab
WhiteSpace == {" ", "\t"}
Letters == {"a", "b"}
Alphabet == Letters \cup WhiteSpace
Phrases == UNION {[1..len -> Alphabet] : len \in 0..MaxPhraseLen}
\* the bip39 word list, scaled down to two one-letter words
WordList == {<<"a">>, <<"b">>}

RECURSIVE FieldsFrom(_, _, _, _)
\* strings.Fields from position k on: cur is the field being read, acc the
\* fields read so far
FieldsFrom(s, k, cur, acc) ==
    IF k > Len(s)
    THEN IF cur = <<>> THEN acc ELSE Append(acc, cur)
    ELSE IF s[k] \in WhiteSpace
    THEN FieldsFrom(s, k + 1, <<>>, IF cur = <<>> THEN acc ELSE Append(acc, cur))
    ELSE FieldsFrom(s, k + 1, Append(cur, s[k]), acc)

Fields(s) == FieldsFrom(s, 1, <<>>, <<>>)

RECURSIVE Join(_, _)
\* strings.Join
Join(elems, sep) ==
    IF elems = <<>> THEN <<>>
    ELSE IF Len(elems) = 1 THEN elems[1]
    ELSE elems[1] \o sep \o Join(Tail(elems), sep)

\* bip39.IsMnemonicValid: splits the phrase with strings.Fields, then checks
\* the number of words, that each is in the word list, and the checksum
\* (here: the last word repeats the first).
IsMnemonicValid(s) ==
    LET words == Fields(s) IN
    /\ Len(words) = MnemonicWords
    /\ \A k \in 1..Len(words) : words[k] \in WordList
    /\ words[Len(words)] = words[1]

\* what bip39.NewMnemonic can return: valid phrases, single-spaced
GeneratedMnemonics ==
    {Join([k \in 1..MnemonicWords |-> w], <<Space>>) : w \in WordList}

(***************************************************************************)
(* Key pairs                                                               *)
(***************************************************************************)
\* common.MaxAccountsPerWallet; its value is set outside the sources at
\* hand, the model takes a small one.
MaxAccountsPerWallet == 3
AccountCounts == (-1)..(MaxAccountsPerWallet + 1)

ErrAccounts == "invalid number of accounts"
ErrWhitespace == "whitespace violation in mnemonic phrase"
ErrInvalidMnemonic == "invalid mnemonic"
\* the errors bip39, the key derivation and the hardware signer can return
ExternalErrors == {"errA", "errB"}

NoneMnemonic == <<"(", "n", "o", "n", "e", ")">>
EmptySeed == <<>>
\* bip39.NewSeed(m, ""): a function of the phrase
NewSeed(phrase) == <<"seed", phrase>>
\* NewMasterKeyPair(seed), when it succeeds
NewMasterKeyPair(sd) == [kind |-> "seed", seed |-> sd]
\* NewMasterKeyPairFromLedger(), when it succeeds
NewMasterKeyPairFromLedger == [kind |-> "ledger", seed |-> EmptySeed]
\* masterKeypair.NewChildKeyPair(masterSeed, index), when it succeeds
NewChildKeyPair(master, masterSeed, index) ==
    [parent |-> master, seed |-> masterSeed, index |-> index]

Call(fn, index) == [fn |-> fn, index |-> index]
Failure(step, err) == [step |-> step, err |-> err]
ChildFailure(index, err) == [step |-> "NewChildKeyPair", err |-> err, index |-> index]
Return(wallet, err) == [wallet |-> wallet, err |-> err]

walletFromMnemonicAndAccounts(phrase, masterKp, kp) ==
    Return([Meta |-> [DisplayName |-> "Main Wallet", Created |-> "now", GenesisID |-> ""],
            Secrets |-> [Mnemonic |-> phrase, MasterKeypair |-> masterKp, Accounts |-> kp]],
           Nil)

\* the locals a constructor's step leaves alone
wInputs == <<ctor, n>>

InitWallet ==
    /\ ctor \in {"random", "mnemonic", "ledger"}
    /\ n \in AccountCounts
    /\ m \in IF ctor = "mnemonic" THEN Phrases ELSE {<<>>}
    /\ pc = IF ctor = "random" THEN "NewEntropy" ELSE "checkCount"
    /\ calls = <<>> /\ seed = <<>> /\ masterKeyPair = NilPointer
    /\ accounts = <<>> /\ i = 0 /\ ret = NoReturn /\ raised = NoFailure
    /\ IdleMultiSig /\ IdleAddr /\ IdleGo /\ IdleHex
    /\ networkHrp = StringHeader(HrpSm)

wOther == <<msVars, aVars, networkHrp, gVars, hVars>>

\* NewMultiWalletRandomMnemonic: bip39.NewEntropy
RandomEntropy ==
    /\ ctor = "random" /\ pc = "NewEntropy"
    /\ calls' = Append(calls, Call("bip39.NewEntropy", -1))
    /\ \/ /\ pc' = "NewMnemonic"
          /\ UNCHANGED <<ret, raised>>
       \/ \E e \in ExternalErrors :
            /\ raised' = Failure("bip39.NewEntropy", e)
            /\ ret' = Return(NilPointer, e)
            /\ pc' = "done"
    /\ UNCHANGED <<wInputs, m, seed, masterKeyPair, accounts, i, wOther>>

\* NewMultiWalletRandomMnemonic: bip39.NewMnemonic, then the call of
\* NewMultiWalletFromMnemonic(m, n)
RandomMnemonic ==
    /\ ctor = "random" /\ pc = "NewMnemonic"
    /\ calls' = Append(calls, Call("bip39.NewMnemonic", -1))
    /\ \/ \E phrase \in GeneratedMnemonics :
            /\ m' = phrase
            /\ pc' = "checkCount"
            /\ UNCHANGED <<ret, raised>>
       \/ \E e \in ExternalErrors :
            /\ raised' = Failure("bip39.NewMnemonic", e)
            /\ ret' = Return(NilPointer, e)
            /\ pc' = "done"
            /\ m' = m
    /\ UNCHANGED <<wInputs, seed, masterKeyPair, accounts, i, wOther>>

\* the bound checked against the maximum itself
CheckAccountCountMnemonicOffByOne ==
    /\ ctor \in {"random", "mnemonic"} /\ pc = "checkCount"
    /\ IF n < 0 \/ n >= MaxAccountsPerWallet
       THEN /\ raised' = Failure("checkCount", ErrAccounts)
            /\ ret' = Return(NilPointer, ErrAccounts)
            /\ pc' = "done"
       ELSE /\ pc' = "checkWhitespace"
            /\ UNCHANGED <<ret, raised>>
    /\ UNCHANGED <<wInputs, m, calls, seed, masterKeyPair, accounts, i, wOther>>

\* NewMultiWalletFromMnemonic: the account count
CheckAccountCountMnemonic ==
    /\ ctor \in {"random", "mnemonic"} /\ pc = "checkCount"
    /\ IF n < 0 \/ n > MaxAccountsPerWallet
       THEN /\ raised' = Failure("checkCount", ErrAccounts)
            /\ ret' = Return(NilPointer, ErrAccounts)
            /\ pc' = "done"
       ELSE /\ pc' = "checkWhitespace"
            /\ UNCHANGED <<ret, raised>>
    /\ UNCHANGED <<wInputs, m, calls, seed, masterKeyPair, accounts, i, wOther>>

\* the phrase compared with itself less the surrounding whitespace only
CheckWhitespaceTrimOnly ==
    /\ pc = "checkWhitespace"
    /\ IF m # <<>> /\ (m[1] \in WhiteSpace \/ m[Len(m)] \in WhiteSpace)
       THEN /\ raised' = Failure("checkWhitespace", ErrWhitespace)
            /\ ret' = Return(NilPointer, ErrWhitespace)
            /\ pc' = "done"
       ELSE /\ pc' = "IsMnemonicValid"
            /\ UNCHANGED <<ret, raised>>
    /\ UNCHANGED <<wInputs, m, calls, seed, masterKeyPair, accounts, i, wOther>>

\* NewMultiWalletFromMnemonic: the whitespace of the phrase
CheckWhitespace ==
    /\ pc = "checkWhitespace"
    /\ LET expected == Join(Fields(m), <<Space>>) IN
       IF m # expected
       THEN /\ raised' = Failure("checkWhitespace", ErrWhitespace)
            /\ ret' = Return(NilPointer, ErrWhitespace)
            /\ pc' = "done"
       ELSE /\ pc' = "IsMnemonicValid"
            /\ UNCHANGED <<ret, raised>>
    /\ UNCHANGED <<wInputs, m, calls, seed, masterKeyPair, accounts, i, wOther>>

\* NewMultiWalletFromMnemonic: the number of words and the checksum
CheckMnemonicValid ==
    /\ pc = "IsMnemonicValid"
    /\ calls' = Append(calls, Call("bip39.IsMnemonicValid", -1))
    /\ IF ~IsMnemonicValid(m)
       THEN /\ raised' = Failure("bip39.IsMnemonicValid", ErrInvalidMnemonic)
            /\ ret' = Return(NilPointer, ErrInvalidMnemonic)
            /\ pc' = "done"
       ELSE /\ pc' = "NewMasterKeyPair"
            /\ UNCHANGED <<ret, raised>>
    /\ UNCHANGED <<wInputs, m, seed, masterKeyPair, accounts, i, wOther>>

\* the error of NewMasterKeyPair is dropped and the constructor goes on
DeriveMasterIgnoresError ==
    /\ pc = "NewMasterKeyPair"
    /\ seed' = NewSeed(m)
    /\ calls' = calls \o <<Call("bip39.NewSeed", -1), Call("NewMasterKeyPair", -1)>>
    /\ \/ /\ masterKeyPair' = NewMasterKeyPair(seed')
          /\ UNCHANGED raised
       \/ \E e \in ExternalErrors :
            /\ raised' = Failure("NewMasterKeyPair", e)
            /\ UNCHANGED masterKeyPair
    /\ pc' = "accountsFromMaster"
    /\ UNCHANGED <<wInputs, m, accounts, i, ret, wOther>>

\* NewMultiWalletFromMnemonic: the seed and the master key pair
DeriveMaster ==
    /\ pc = "NewMasterKeyPair"
    /\ seed' = NewSeed(m)
    /\ calls' = calls \o <<Call("bip39.NewSeed", -1), Call("NewMasterKeyPair", -1)>>
    /\ \/ /\ masterKeyPair' = NewMasterKeyPair(seed')
          /\ pc' = "accountsFromMaster"
          /\ UNCHANGED <<ret, raised>>
       \/ \E e \in ExternalErrors :
            /\ raised' = Failure("NewMasterKeyPair", e)
            /\ ret' = Return(NilPointer, e)
            /\ pc' = "done"
            /\ UNCHANGED masterKeyPair
    /\ UNCHANGED <<wInputs, m, accounts, i, wOther>>

\* NewMultiWalletFromLedger: the account count
CheckAccountCountLedger ==
    /\ ctor = "ledger" /\ pc = "checkCount"
    /\ IF n < 0 \/ n > MaxAccountsPerWallet
       THEN /\ raised' = Failure("checkCount", ErrAccounts)
            /\ ret' = Return(NilPointer, ErrAccounts)
            /\ pc' = "done"
       ELSE /\ pc' = "NewMasterKeyPairFromLedger"
            /\ UNCHANGED <<ret, raised>>
    /\ UNCHANGED <<wInputs, m, calls, seed, masterKeyPair, accounts, i, wOther>>

\* NewMultiWalletFromLedger: the master key pair, asked of the signer
LedgerMaster ==
    /\ pc = "NewMasterKeyPairFromLedger"
    /\ calls' = Append(calls, Call("NewMasterKeyPairFromLedger", -1))
    /\ \/ /\ masterKeyPair' = NewMasterKeyPairFromLedger
          /\ seed' = EmptySeed
          /\ pc' = "accountsFromMaster"
          /\ UNCHANGED <<ret, raised>>
       \/ \E e \in ExternalErrors :
            /\ raised' = Failure("NewMasterKeyPairFromLedger", e)
            /\ ret' = Return(NilPointer, e)
            /\ pc' = "done"
            /\ UNCHANGED <<masterKeyPair, seed>>
    /\ UNCHANGED <<wInputs, m, accounts, i, wOther>>

\* accountsFromMaster: make([]*EDKeyPair, 0, n) and i := 0
MakeAccounts ==
    /\ pc = "accountsFromMaster"
    /\ accounts' = <<>>
    /\ i' = 0
    /\ pc' = "loop"
    /\ UNCHANGED <<wInputs, m, calls, seed, masterKeyPair, ret, raised, wOther>>

\* a failed derivation is skipped and the loop goes on
DeriveChildSkipFailed ==
    /\ pc = "loop" /\ i < n
    /\ calls' = Append(calls, Call("NewChildKeyPair", i))
    /\ \/ /\ accounts' = Append(accounts, NewChildKeyPair(masterKeyPair, seed, i))
          /\ UNCHANGED raised
       \/ \E e \in ExternalErrors :
            /\ raised' = ChildFailure(i, e)
            /\ UNCHANGED accounts
    /\ i' = i + 1
    /\ UNCHANGED <<wInputs, m, pc, seed, masterKeyPair, ret, wOther>>

\* the new account is put in front of the list
DeriveChildPrepend ==
    /\ pc = "loop" /\ i < n
    /\ calls' = Append(calls, Call("NewChildKeyPair", i))
    /\ \/ /\ accounts' = <<NewChildKeyPair(masterKeyPair, seed, i)>> \o accounts
          /\ i' = i + 1
          /\ UNCHANGED <<pc, ret, raised>>
       \/ \E e \in ExternalErrors :
            /\ raised' = ChildFailure(i, e)
            /\ accounts' = <<>>
            /\ ret' = Return(NilPointer, e)
            /\ pc' = "done"
            /\ UNCHANGED i
    /\ UNCHANGED <<wInputs, m, seed, masterKeyPair, wOther>>

\* accountsFromMaster: one turn of the loop; on an error accountsFromMaster
\* returns (nil, err) and the constructor returns (nil, err)
DeriveChild ==
    /\ pc = "loop" /\ i < n
    /\ calls' = Append(calls, Call("NewChildKeyPair", i))
    /\ \/ /\ accounts' = Append(accounts, NewChildKeyPair(masterKeyPair, seed, i))
          /\ i' = i + 1
          /\ UNCHANGED <<pc, ret, raised>>
       \/ \E e \in ExternalErrors :
            /\ raised' = ChildFailure(i, e)
            /\ accounts' = <<>>
            /\ ret' = Return(NilPointer, e)
            /\ pc' = "done"
            /\ UNCHANGED i
    /\ UNCHANGED <<wInputs, m, seed, masterKeyPair, wOther>>

\* accountsFromMaster returns the accounts; the constructor returns
\* walletFromMnemonicAndAccounts(m, masterKeyPair, accounts)
AccountsReturn ==
    /\ pc = "loop" /\ ~(i < n)
    /\ ret' = walletFromMnemonicAndAccounts(
                  IF ctor = "ledger" THEN NoneMnemonic ELSE m, masterKeyPair, accounts)
    /\ pc' = "done"
    /\ UNCHANGED <<wInputs, m, calls, seed, masterKeyPair, accounts, i, raised, wOther>>

NextWallet ==
    \/ RandomEntropy
    \/ RandomMnemonic
    \/ CheckAccountCountMnemonic
    \/ CheckWhitespace
    \/ CheckMnemonicValid
    \/ DeriveMaster
    \/ CheckAccountCountLedger
    \/ LedgerMaster
    \/ MakeAccounts
    \/ DeriveChild
    \/ AccountsReturn

SpecWallet == InitWallet /\ [][NextWallet]_vars

InRange == 0 <= n /\ n <= MaxAccountsPerWallet
ChildCalls == SelectSeq(calls, LAMBDA call : call.fn = "NewChildKeyPair")
DerivationCalls ==
    SelectSeq(calls, LAMBDA call :
        call.fn \in {"NewMasterKeyPair", "NewMasterKeyPairFromLedger", "NewChildKeyPair"})

\* leading, trailing or doubled whitespace, or whitespace other than a space
HasWhitespaceViolation(s) ==
    /\ s # <<>>
    /\ \/ s[1] \in WhiteSpace
       \/ s[Len(s)] \in WhiteSpace
       \/ \E k \in 1..(Len(s) - 1) : s[k] \in WhiteSpace /\ s[k + 1] \in WhiteSpace
       \/ \E k \in 1..Len(s) : s[k] \in WhiteSpace /\ s[k] # Space

\* C3: with an in-range account count, NewMultiWalletFromMnemonic returns
\* the whitespace-violation error exactly when the phrase is not its fields
\* joined by single spaces, whether or not its words and checksum are valid.
C3_WhitespaceErrorExactly ==
    (ctor \in {"random", "mnemonic"} /\ pc = "done" /\ InRange) =>
        /\ (ret.err = ErrWhitespace) <=> HasWhitespaceViolation(m)
        /\ (ret.err = ErrWhitespace) <=> (m # Join(Fields(m), <<Space>>))

C3_Witness ==
    /\ ctor = "mnemonic" /\ pc = "done" /\ InRange
    /\ IsMnemonicValid(m) /\ ret.err = ErrWhitespace
    /\ \E k \in 1..(Len(m) - 1) : m[k] = Space /\ m[k + 1] = Space

\* C4: NewMultiWalletFromMnemonic and NewMultiWalletFromLedger fail with
\* the invalid-account-count error iff n < 0 or n > MaxAccountsPerWallet,
\* and then nothing was derived and the signer was not called; with n = 0,
\* a valid mnemonic and a master key pair obtained, the wallet is returned
\* with an empty account list and no error.
C4_AccountCountError ==
    ctor \in {"mnemonic", "ledger"} =>
        /\ pc = "done" => ((ret.err = ErrAccounts) <=> ~InRange)
        /\ ~InRange => DerivationCalls = <<>> /\ seed = <<>> /\ masterKeyPair = NilPointer
        /\ ( /\ pc = "done" /\ n = 0
             /\ ctor = "mnemonic" => (IsMnemonicValid(m) /\ m = Join(Fields(m), <<Space>>))
             /\ raised # NoFailure =>
                    raised.step \notin {"NewMasterKeyPair", "NewMasterKeyPairFromLedger"} )
           => /\ ret.err = Nil
              /\ ret.wallet # NilPointer
              /\ ret.wallet.Secrets.Accounts = <<>>
              /\ ChildCalls = <<>>

C4_Witness ==
    /\ ctor = "mnemonic" /\ pc = "done" /\ n > MaxAccountsPerWallet
    /\ IsMnemonicValid(m) /\ m = Join(Fields(m), <<Space>>)
    /\ ret = Return(NilPointer, ErrAccounts)

\* C5: accountsFromMaster asks for the children 0, 1, ..., n-1 in this
\* order; when the derivation of index k fails it returns that error and no
\* list, and asks for no index above k.
C5_DerivationOrderFailFast ==
    /\ \A k \in 1..Len(ChildCalls) : ChildCalls[k].index = k - 1
    /\ Len(ChildCalls) <= (IF n > 0 THEN n ELSE 0)
    /\ pc = "loop" => Len(ChildCalls) = i /\ Len(accounts) = i
    /\ (pc = "done" /\ ret.err = Nil) => Len(ChildCalls) = n
    /\ (raised # NoFailure /\ raised.step = "NewChildKeyPair") =>
        /\ pc = "done"
        /\ accounts = <<>>
        /\ ret = Return(NilPointer, raised.err)
        /\ Len(ChildCalls) = raised.index + 1

C5_Witness ==
    /\ pc = "done" /\ raised # NoFailure /\ raised.step = "NewChildKeyPair"
    /\ raised.index = 1 /\ n = MaxAccountsPerWallet
    /\ Len(ChildCalls) = 2 /\ ret.wallet = NilPointer

\* C6: a wallet returned for account count n has exactly n accounts,
\* n <= MaxAccountsPerWallet, and the account at position k (from 0) is the
\* key pair derived with index k.
C6_AccountsInDerivationOrder ==
    (pc = "done" /\ ret.wallet # NilPointer) =>
        LET secrets == ret.wallet.Secrets IN
        /\ Len(secrets.Accounts) = n
        /\ n <= MaxAccountsPerWallet
        /\ \A k \in 0..(n - 1) :
            /\ secrets.Accounts[k + 1].index = k
            /\ secrets.Accounts[k + 1] =
                 NewChildKeyPair(secrets.MasterKeypair,
                                 IF ctor = "ledger" THEN EmptySeed ELSE NewSeed(m), k)

C6_Witness ==
    /\ pc = "done" /\ ret.wallet # NilPointer /\ ret.err = Nil
    /\ n = MaxAccountsPerWallet /\ Len(ret.wallet.Secrets.Accounts) = n

\* C10: a constructor returns either a wallet and no error or no wallet and
\* an error; the error of the first failing step is returned as it is, no
\* step follows the failing one, and no wallet or account list is returned
\* with it.
C10_ErrorsPropagate ==
    /\ pc # "done" => ret = NoReturn
    /\ pc = "done" =>
        /\ (ret.wallet = NilPointer) # (ret.err = Nil)
        /\ (ret.err = Nil) <=> (raised = NoFailure)
        /\ ret.wallet # NilPointer => Len(ret.wallet.Secrets.Accounts) = n
    /\ raised # NoFailure =>
        /\ pc = "done"
        /\ ret = Return(NilPointer, raised.err)
        /\ raised.step \notin {"checkCount", "checkWhitespace"} =>
              calls # <<>> /\ calls[Len(calls)].fn = raised.step

C10_Witness ==
    /\ ctor = "ledger" /\ pc = "done" /\ raised # NoFailure
    /\ raised.step = "NewChildKeyPair" /\ raised.index >= 1
    /\ ret = Return(NilPointer, raised.err)

(***************************************************************************)
(* PubkeyToAddress                                                         *)
(***************************************************************************)
\* ed25519.PublicKeySize
PublicKeySize == 32
\* how many bytes longer than a public key an input may be
MaxExtraBytes == 1
PubkeyLens == {0, 1} \cup ((PublicKeySize - 1)..(PublicKeySize + MaxExtraBytes))
\* the byte slices tried: all zero, or all zero but for one bit set in one byte
PubkeyInputs ==
    {[k \in 1..len |-> IF k = at THEN 1 ELSE 0] : len \in PubkeyLens, at \in 0..(PublicKeySize + MaxExtraBytes)}

\* one byte too few is copied
CopyKeyShort(pubkey) ==
    [k \in 1..PublicKeySize |->
        IF k <= Len(pubkey) /\ k < PublicKeySize THEN pubkey[k] ELSE 0]

\* key := [ed25519.PublicKeySize]byte{}; copy(key[:], pubkey): as many bytes
\* as the shorter of the two holds, the rest of key stays zero
CopyKey(pubkey) ==
    [k \in 1..PublicKeySize |-> IF k <= Len(pubkey) THEN pubkey[k] ELSE 0]

\* walletAddress.String(): the address rendered with the prefix read from
\* types.networkHrp (a string header: data and length)
AddressString(address, header) == [hrp |-> header, address |-> address]

\* the principal of the wallet template spawned with the key
WalletPrincipal(key) == ComputePrincipal(WalletTemplate, [PublicKey |-> key])

InitAddr ==
    /\ pubkeys \in PubkeyInputs \X PubkeyInputs
    /\ hrp \in HRPs
    /\ addrs = <<>>
    /\ addrPc = "call"
    /\ networkHrp = StringHeader(HrpSm)
    /\ IdleMultiSig /\ IdleWallet /\ IdleGo /\ IdleHex

\* PubkeyToAddress(pubkeys[k], hrp), one whole call, for k = 1 and then 2
CallPubkeyToAddress ==
    /\ addrPc = "call"
    /\ LET pubkey == pubkeys[Len(addrs) + 1] IN
       /\ networkHrp' = StringHeader(hrp)
       /\ addrs' = Append(addrs, AddressString(WalletPrincipal(CopyKey(pubkey)), networkHrp'))
    /\ addrPc' = IF Len(addrs') = Len(pubkeys) THEN "done" ELSE "call"
    /\ UNCHANGED <<pubkeys, hrp, msVars, wVars, gVars, hVars>>

NextAddr == CallPubkeyToAddress
SpecAddr == InitAddr /\ [][NextAddr]_vars

ByteAt(pubkey, k) == IF k <= Len(pubkey) THEN pubkey[k] ELSE 0

\* C7 as stated: with one prefix, two inputs of any length that differ in a
\* bit give different address strings.
C7_Original ==
    (addrPc = "done" /\ pubkeys[1] # pubkeys[2]) => addrs[1] # addrs[2]

\* C7 amended: with one prefix, two inputs give different address strings
\* exactly when they differ within their first PublicKeySize bytes, an input
\* shorter than that counting as continued with zero bytes; so two inputs of
\* exactly PublicKeySize bytes that differ in a bit give different strings.
C7_DistinctWithinKeySize ==
    addrPc = "done" =>
        /\ (addrs[1] # addrs[2]) <=>
              \E k \in 1..PublicKeySize : ByteAt(pubkeys[1], k) # ByteAt(pubkeys[2], k)
        /\ ( /\ Len(pubkeys[1]) = PublicKeySize
             /\ Len(pubkeys[2]) = PublicKeySize
             /\ pubkeys[1] # pubkeys[2] ) => addrs[1] # addrs[2]

C7_Witness ==
    /\ addrPc = "done"
    /\ Len(pubkeys[1]) = PublicKeySize /\ Len(pubkeys[2]) = PublicKeySize
    /\ pubkeys[1][PublicKeySize] # pubkeys[2][PublicKeySize]
    /\ addrs[1] # addrs[2]
    /\ addrs[1].hrp = StringHeader(hrp)

(***************************************************************************)
(* PubkeyToAddress called by two goroutines at once.  types.networkHrp is  *)
(* a package variable written and read without synchronisation; a Go       *)
(* string is a data pointer and a length, stored and loaded as two words,  *)
(* in either order.                                                        *)
(***************************************************************************)
Goroutines == {1, 2}
GoPubkeys == {[k \in 1..PublicKeySize |-> 0], [k \in 1..PublicKeySize |-> 1]}
NoWord == "unread"

InitGo ==
    /\ gArgs \in [Goroutines -> [pubkey : GoPubkeys, hrp : HRPs]]
    /\ gPc = [g \in Goroutines |-> "set"]
    /\ gKey = [g \in Goroutines |-> <<>>]
    /\ gRead = [g \in Goroutines |-> [data |-> NoWord, len |-> -1]]
    /\ gRet = [g \in Goroutines |-> NoReturn]
    /\ gOverlap = [g \in Goroutines |-> FALSE]
    /\ networkHrp \in {StringHeader(h) : h \in HRPs}
    /\ IdleMultiSig /\ IdleWallet /\ IdleAddr /\ IdleHex

\* a call is under way from its first step to its return
InCall(g) == gPc[g] \notin {"set", "done"}

\* goroutine g takes a step: its call overlaps every call under way
Overlap(g) ==
    gOverlap' = [h \in Goroutines |->
                    IF h = g THEN gOverlap[g] \/ \E o \in Goroutines \ {g} : InCall(o)
                    ELSE gOverlap[h] \/ InCall(h)]

gOther == <<msVars, wVars, aVars, hVars>>

\* the data word is not stored
SetNetworkHRPDataDropped(g) ==
    /\ gPc[g] \in {"set", "setLen"}
    /\ UNCHANGED networkHrp
    /\ gPc' = [gPc EXCEPT ![g] = IF gPc[g] = "set" THEN "setData" ELSE "copy"]
    /\ Overlap(g)
    /\ UNCHANGED <<gArgs, gKey, gRead, gRet, gOther>>

\* types.SetNetworkHRP(hrp): the store of the data word
SetNetworkHRPData(g) ==
    /\ gPc[g] \in {"set", "setLen"}
    /\ networkHrp' = [networkHrp EXCEPT !.data = gArgs[g].hrp]
    /\ gPc' = [gPc EXCEPT ![g] = IF gPc[g] = "set" THEN "setData" ELSE "copy"]
    /\ Overlap(g)
    /\ UNCHANGED <<gArgs, gKey, gRead, gRet, gOther>>

\* types.SetNetworkHRP(hrp): the store of the length word
SetNetworkHRPLen(g) ==
    /\ gPc[g] \in {"set", "setData"}
    /\ networkHrp' = [networkHrp EXCEPT !.len = Len(gArgs[g].hrp)]
    /\ gPc' = [gPc EXCEPT ![g] = IF gPc[g] = "set" THEN "setLen" ELSE "copy"]
    /\ Overlap(g)
    /\ UNCHANGED <<gArgs, gKey, gRead, gRet, gOther>>

\* key := ...; copy(key[:], pubkey); core.ComputePrincipal(...)
GoComputePrincipal(g) ==
    /\ gPc[g] = "copy"
    /\ gKey' = [gKey EXCEPT ![g] = CopyKey(gArgs[g].pubkey)]
    /\ gPc' = [gPc EXCEPT ![g] = "read"]
    /\ Overlap(g)
    /\ UNCHANGED <<networkHrp, gArgs, gRead, gRet, gOther>>

\* walletAddress.String(): the load of the prefix's data word
GoReadData(g) ==
    /\ gPc[g] \in {"read", "readLen"}
    /\ gRead' = [gRead EXCEPT ![g].data = networkHrp.data]
    /\ gPc' = [gPc EXCEPT ![g] = IF gPc[g] = "read" THEN "readData" ELSE "return"]
    /\ Overlap(g)
    /\ UNCHANGED <<networkHrp, gArgs, gKey, gRet, gOther>>

\* walletAddress.String(): the load of the prefix's length word
GoReadLen(g) ==
    /\ gPc[g] \in {"read", "readData"}
    /\ gRead' = [gRead EXCEPT ![g].len = networkHrp.len]
    /\ gPc' = [gPc EXCEPT ![g] = IF gPc[g] = "read" THEN "readLen" ELSE "return"]
    /\ Overlap(g)
    /\ UNCHANGED <<networkHrp, gArgs, gKey, gRet, gOther>>

\* return walletAddress.String()
GoReturn(g) ==
    /\ gPc[g] = "return"
    /\ gRet' = [gRet EXCEPT ![g] = AddressString(WalletPrincipal(gKey[g]), gRead[g])]
    /\ gPc' = [gPc EXCEPT ![g] = "done"]
    /\ Overlap(g)
    /\ UNCHANGED <<networkHrp, gArgs, gKey, gRead, gOther>>

NextGo ==
    \E g \in Goroutines :
        \/ SetNetworkHRPData(g)
        \/ SetNetworkHRPLen(g)
        \/ GoComputePrincipal(g)
        \/ GoReadData(g)
        \/ GoReadLen(g)
        \/ GoReturn(g)

SpecGo == InitGo /\ [][NextGo]_vars

\* the address string PubkeyToAddress(pubkey, h) is meant to return
OwnAddress(g) ==
    AddressString(WalletPrincipal(CopyKey(gArgs[g].pubkey)), StringHeader(gArgs[g].hrp))

\* C9: two calls of PubkeyToAddress with different prefixes that run one
\* after the other each return the address rendered with their own prefix;
\* run at once, one can return an address rendered with the other's prefix
\* (the state C9_Witness).
C9_SerializedCallsUseOwnPrefix ==
    \A g \in Goroutines :
        (gPc[g] = "done" /\ ~gOverlap[g]) =>
            /\ gRet[g].hrp = StringHeader(gArgs[g].hrp)
            /\ gRet[g] = OwnAddress(g)

C9_Witness ==
    \E g \in Goroutines : \E o \in Goroutines \ {g} :
        /\ gPc[g] = "done" /\ gPc[o] = "done"
        /\ gArgs[g].hrp # gArgs[o].hrp
        /\ gRet[g].hrp = StringHeader(gArgs[o].hrp)
        /\ gRet[g].address = WalletPrincipal(CopyKey(gArgs[g].pubkey))
        /\ gRet[o].hrp = StringHeader(gArgs[o].hrp)

(***************************************************************************)
(* hexEncodedCiphertext (encoding/hex within encoding/json)                *)
(***************************************************************************)
\* the longest byte slice encoded, beyond the single bytes
MaxHexBytes == 2
\* the longest string decoded, in characters
MaxHexChars == 4
SampleBytes == {0, 10, 175, 255}
ByteSlices ==
    {<<b>> : b \in 0..255} \cup UNION {[1..len -> SampleBytes] : len \in 0..MaxHexBytes}
\* the characters of the strings decoded: digits in both cases, and "g"
SampleChars == {"0", "9", "a", "f", "A", "F", "g"}
Quote == "\""
JsonNull == <<"n", "u", "l", "l">>
JsonNumber == <<"1", "2">>
\* the JSON texts handed to UnmarshalJSON: string literals, null, a number,
\* a string literal left open
JsonTexts ==
    LET strings == UNION {[1..len -> SampleChars] : len \in 0..MaxHexChars} IN
    {<<Quote>> \o str \o <<Quote>> : str \in strings}
    \cup {JsonNull, JsonNumber, <<Quote, "a", "b">>}
\* what the receiver holds before the call
PriorContents == {<<>>, <<7>>}

\* encoding/hex: const hextable = "0123456789abcdef"
hextable == <<"0", "1", "2", "3", "4", "5", "6", "7", "8", "9", "a", "b", "c", "d", "e", "f">>
UpperDigits == <<"A", "B", "C", "D", "E", "F">>
InvalidNibble == 255

\* upper-case digits are not known
reverseHexTableLowerOnly(ch) ==
    IF \E k \in 1..Len(hextable) : hextable[k] = ch
    THEN (CHOOSE k \in 1..Len(hextable) : hextable[k] = ch) - 1
    ELSE InvalidNibble

\* encoding/hex: reverseHexTable, 0xff for a byte that is no hex digit
reverseHexTable(ch) ==
    IF \E k \in 1..Len(hextable) : hextable[k] = ch
    THEN (CHOOSE k \in 1..Len(hextable) : hextable[k] = ch) - 1
    ELSE IF \E k \in 1..Len(UpperDigits) : UpperDigits[k] = ch
    THEN (CHOOSE k \in 1..Len(UpperDigits) : UpperDigits[k] = ch) + 9
    ELSE InvalidNibble

RECURSIVE EncodeToString(_)
\* hex.EncodeToString
EncodeToString(src) ==
    IF src = <<>> THEN <<>>
    ELSE <<hextable[(src[1] \div 16) + 1], hextable[(src[1] % 16) + 1]>>
         \o EncodeToString(Tail(src))

RECURSIVE DecodeFrom(_, _, _)
\* hex.Decode's loop from the pair ending at position j; dst holds the bytes
\* decoded so far, which are returned together with an error
DecodeFrom(src, j, dst) ==
    IF j <= Len(src)
    THEN LET a == reverseHexTable(src[j - 1])
             b == reverseHexTable(src[j])
         IN IF a > 15 \/ b > 15
            THEN [bytes |-> dst, err |-> "InvalidByteError"]
            ELSE DecodeFrom(src, j + 2, Append(dst, a * 16 + b))
    ELSE IF Len(src) % 2 = 1
    THEN IF reverseHexTable(src[j - 1]) > 15
         THEN [bytes |-> dst, err |-> "InvalidByteError"]
         ELSE [bytes |-> dst, err |-> "ErrLength"]
    ELSE [bytes |-> dst, err |-> Nil]

\* hex.DecodeString
DecodeString(str) == DecodeFrom(str, 2, <<>>)

\* json.Marshal of a string of hex digits: the string in quotes
JsonMarshalString(str) == <<Quote>> \o str \o <<Quote>>

IsJsonString(data) ==
    /\ Len(data) >= 2
    /\ data[1] = Quote /\ data[Len(data)] = Quote
    /\ \A k \in 2..(Len(data) - 1) : data[k] \notin {Quote, "\\"}

\* json.Unmarshal(data, &hexString), hexString being "" before: a string
\* literal gives its content, null leaves hexString as it is, anything else
\* is an error
JsonUnmarshalString(data) ==
    IF IsJsonString(data) THEN [str |-> SubSeq(data, 2, Len(data) - 1), err |-> Nil]
    ELSE IF data = JsonNull THEN [str |-> <<>>, err |-> Nil]
    ELSE [str |-> <<>>, err |-> "json error"]

InitHex ==
    /\ \/ hexPc = "MarshalJSON" /\ hexBytes \in ByteSlices /\ hexData = <<>>
       \/ hexPc = "UnmarshalJSON" /\ hexBytes = <<>> /\ hexData \in JsonTexts
    /\ c \in PriorContents
    /\ hexErr = Nil
    /\ networkHrp = StringHeader(HrpSm)
    /\ IdleMultiSig /\ IdleWallet /\ IdleAddr /\ IdleGo

hOther == <<msVars, wVars, aVars, networkHrp, gVars>>

\* MarshalJSON of the bytes, whose output is then decoded into c
MarshalJSON ==
    /\ hexPc = "MarshalJSON"
    /\ hexData' = JsonMarshalString(EncodeToString(hexBytes))
    /\ hexPc' = "UnmarshalOwn"
    /\ UNCHANGED <<hexBytes, c, hexErr, hOther>>

\* UnmarshalJSON(hexData) on the receiver c
UnmarshalJSON ==
    /\ hexPc \in {"UnmarshalOwn", "UnmarshalJSON"}
    /\ LET hexString == JsonUnmarshalString(hexData) IN
       IF hexString.err # Nil
       THEN /\ hexErr' = hexString.err
            /\ UNCHANGED c
       ELSE LET decoded == DecodeString(hexString.str) IN
            /\ c' = decoded.bytes
            /\ hexErr' = decoded.err
    /\ hexPc' = IF hexPc = "UnmarshalOwn" THEN "roundTripDone" ELSE "done"
    /\ UNCHANGED <<hexBytes, hexData, hOther>>

NextHex == MarshalJSON \/ UnmarshalJSON
SpecHex == InitHex /\ [][NextHex]_vars

HexDigits == {hextable[k] : k \in 1..Len(hextable)} \cup {UpperDigits[k] : k \in 1..Len(UpperDigits)}
ToLower(ch) ==
    IF \E k \in 1..Len(UpperDigits) : UpperDigits[k] = ch
    THEN hextable[(CHOOSE k \in 1..Len(UpperDigits) : UpperDigits[k] = ch) + 10]
    ELSE ch
LowerCased(str) == [k \in 1..Len(str) |-> ToLower(str[k])]
HexContent == SubSeq(hexData, 2, Len(hexData) - 1)
WellFormedHex(str) == Len(str) % 2 = 0 /\ \A k \in 1..Len(str) : str[k] \in HexDigits

====
